---- MODULE Spec2Model ----
(***************************************************************************)
(* The agrovet locator of the Kiduka API: load_agrovet_data and            *)
(* AgrovetLocator over a pandas DataFrame (api/utils/agrovet.py), the      *)
(* workflow node that queries it (api/nodes/agrovet_search_node.py),       *)
(* queries that run in threads at once, the prediction workflow behind     *)
(* POST /predict (api/workflow, api/nodes, api/routers/predict_router.py)  *)
(* and the SessionManager (api/utils/session.py).                          *)
(*                                                                         *)
(* Units.  Coordinates are whole degrees.  A distance is a whole number of *)
(* metres, i.e. of 0.001 km, so round(d, 2) is rounding to a multiple of   *)
(* 10.  The float nan is the value NaN, Python's None the value None.      *)
(***************************************************************************)
EXTENDS Integers, Sequences, FiniteSets, TLC

\* ---- bounds of the model
MaxRows == 2
MaxThreads == 2
MaxClients == 2
MaxClock == 2
MaxPredictions == 2

\* float('nan') and None, outside every number the model computes with
NaN == 0 - 1
None == 0 - 1000

(***************************************************************************)
(* Fixed-point reals.  A real x is held as the integer x * Unit, truncated  *)
(* toward zero; every operation is odd-symmetric like its IEEE original.   *)
(***************************************************************************)
Half4 == 100 * 100
Unit == Half4 * Half4

Abs(x) == IF x < 0 THEN 0 - x ELSE x
Sign(x) == IF x < 0 THEN 0 - 1 ELSE 1

\* x * y on fixed-point reals, by 4-digit limbs so that no product leaves 32 bits
MulPos(x, y) ==
    LET xh == x \div Half4
        xl == x % Half4
        yh == y \div Half4
        yl == y % Half4
    IN  xh * yh + ((xh * yl + xl * yh + ((xl * yl) \div Half4)) \div Half4)

Mul(x, y) == Sign(x) * Sign(y) * MulPos(Abs(x), Abs(y))

\* x / n for a small positive integer n
DivInt(x, n) == Sign(x) * (Abs(x) \div n)

\* pi / 180 in fixed point
RadPerDeg == 1745329

\* np.radians
Radians(deg) == deg * RadPerDeg

RECURSIVE SinSeries(_, _, _, _)
\* sum of the Taylor terms of sin from term t (of order 2n-1) on
SinSeries(x2, t, n, acc) ==
    IF t = 0 THEN acc
    ELSE SinSeries(x2, 0 - DivInt(DivInt(Mul(t, x2), 2 * n), 2 * n + 1), n + 1, acc + t)

\* pi, as Radians(180)
Pi == 180 * RadPerDeg

\* np.sin: the argument is brought into [-pi/2, pi/2] first
Sin(x) ==
    LET y == IF x > Pi THEN x - 2 * Pi ELSE IF x < 0 - Pi THEN x + 2 * Pi ELSE x
        z == IF 2 * y > Pi THEN Pi - y ELSE IF 2 * y < 0 - Pi THEN 0 - Pi - y ELSE y
    IN  SinSeries(Mul(z, z), z, 1, 0)

RECURSIVE CosSeries(_, _, _, _)
CosSeries(x2, t, n, acc) ==
    IF t = 0 THEN acc
    ELSE CosSeries(x2, 0 - DivInt(DivInt(Mul(t, x2), 2 * n - 1), 2 * n), n + 1, acc + t)

\* np.cos: the argument is brought into [-pi/2, pi/2] first
Cos(x) ==
    LET y == IF x > Pi THEN x - 2 * Pi ELSE IF x < 0 - Pi THEN x + 2 * Pi ELSE x
        z == IF 2 * y > Pi THEN Pi - y ELSE IF 2 * y < 0 - Pi THEN 0 - Pi - y ELSE y
    IN  IF z = y THEN CosSeries(Mul(z, z), Unit, 1, 0)
        ELSE 0 - CosSeries(Mul(z, z), Unit, 1, 0)

RECURSIVE SqrtSearch(_, _, _)
\* the least root in lo..hi whose square reaches a
SqrtSearch(a, lo, hi) ==
    IF lo >= hi THEN lo
    ELSE LET mid == (lo + hi) \div 2
         IN  IF MulPos(mid, mid) >= a THEN SqrtSearch(a, lo, mid)
             ELSE SqrtSearch(a, mid + 1, hi)

\* np.sqrt on [0, 1]
Sqrt(a) == SqrtSearch(a, 0, Unit)

RECURSIVE ArcsinSeries(_, _, _, _)
ArcsinSeries(x2, t, n, acc) ==
    IF t = 0 THEN acc
    ELSE ArcsinSeries(x2,
            ((Mul(t, x2) * (2 * n - 1)) \div (2 * n)),
            n + 1,
            acc + (t \div (2 * n - 1)))

\* np.arcsin on [0, 1)
Arcsin(x) == ArcsinSeries(Mul(x, x), x, 1, 0)

\* the points, in degrees, of the users and of the agrovets of the model
UserPoints == {<<0, 0>>, <<0, 359>>, <<91, 0>>}
AgrovetPoints == {<<0, 0>>, <<0, 1>>, <<1, 0>>, <<4, 4>>, <<91, 0>>, <<0 - 2, 37>>, <<0, 34>>}

\* Earth radius in kilometers
r == 6371

\* c * r, c a fixed-point real: the distance in metres (0.001 km)
TimesRadius(c) ==
    LET step == 10 * Half4
    IN  (c \div step) * r + (((c % step) * r) \div step)

\* mutant of haversine_distance: dlat taken from the user's longitude
haversine_distance_dlat_from_lon(user_lat_deg, user_lon_deg, agrovet_lat_deg, agrovet_lon_deg) ==
    LET user_lat == Radians(user_lat_deg)
        user_lon == Radians(user_lon_deg)
        agrovet_lat == Radians(agrovet_lat_deg)
        agrovet_lon == Radians(agrovet_lon_deg)
        dlat == agrovet_lat - user_lon
        dlon == agrovet_lon - user_lon
        sdlat == Sin(DivInt(dlat, 2))
        sdlon == Sin(DivInt(dlon, 2))
        a == Mul(sdlat, sdlat) + Mul(Mul(Cos(user_lat), Cos(agrovet_lat)), Mul(sdlon, sdlon))
        c == 2 * Arcsin(Sqrt(a))
    IN  TimesRadius(c)

\* mutant of haversine_distance: the cosine of the user's latitude squared
haversine_distance_user_cos(user_lat_deg, user_lon_deg, agrovet_lat_deg, agrovet_lon_deg) ==
    LET user_lat == Radians(user_lat_deg)
        user_lon == Radians(user_lon_deg)
        agrovet_lat == Radians(agrovet_lat_deg)
        agrovet_lon == Radians(agrovet_lon_deg)
        dlat == agrovet_lat - user_lat
        dlon == agrovet_lon - user_lon
        sdlat == Sin(DivInt(dlat, 2))
        sdlon == Sin(DivInt(dlon, 2))
        a == Mul(sdlat, sdlat) + Mul(Mul(Cos(user_lat), Cos(user_lat)), Mul(sdlon, sdlon))
        c == 2 * Arcsin(Sqrt(a))
    IN  TimesRadius(c)

\* distance in metres between the user and one agrovet, coordinates in degrees
haversine_distance(user_lat_deg, user_lon_deg, agrovet_lat_deg, agrovet_lon_deg) ==
    LET user_lat == Radians(user_lat_deg)
        user_lon == Radians(user_lon_deg)
        agrovet_lat == Radians(agrovet_lat_deg)
        agrovet_lon == Radians(agrovet_lon_deg)
        dlat == agrovet_lat - user_lat
        dlon == agrovet_lon - user_lon
        sdlat == Sin(DivInt(dlat, 2))
        sdlon == Sin(DivInt(dlon, 2))
        a == Mul(sdlat, sdlat) + Mul(Mul(Cos(user_lat), Cos(agrovet_lat)), Mul(sdlon, sdlon))
        c == 2 * Arcsin(Sqrt(a))
    IN  TimesRadius(c)


\* haversine_distance over the coordinates of the model, from a user to an
\* agrovet and back, computed once
Distances ==
    [p \in {<<u[1], u[2], a[1], a[2]>> : u \in UserPoints, a \in AgrovetPoints}
            \cup {<<a[1], a[2], u[1], u[2]>> : u \in UserPoints, a \in AgrovetPoints} |->
        haversine_distance(p[1], p[2], p[3], p[4])] @@ <<>>

(***************************************************************************)
(* Strings are sequences of characters.                                    *)
(***************************************************************************)
Digits == {"0", "5", "6", "7"}
DigitValue(ch) == CASE ch = "0" -> 0 [] ch = "5" -> 5 [] ch = "6" -> 6 [] OTHER -> 7

RECURSIVE SplitFrom(_, _, _)
\* the fields of s from position i on, cur the field being read
SplitFrom(s, i, cur) ==
    IF i > Len(s) THEN <<cur>>
    ELSE IF s[i] = "," THEN <<cur>> \o SplitFrom(s, i + 1, <<>>)
    ELSE SplitFrom(s, i + 1, Append(cur, s[i]))

\* str.split(',')
Split(s) == SplitFrom(s, 1, <<>>)

RECURSIVE LStrip(_)
LStrip(s) == IF s # <<>> /\ Head(s) = " " THEN LStrip(Tail(s)) ELSE s

RECURSIVE RStrip(_)
RStrip(s) ==
    IF s # <<>> /\ s[Len(s)] = " " THEN RStrip(SubSeq(s, 1, Len(s) - 1)) ELSE s

\* str.strip()
Strip(s) == RStrip(LStrip(s))

RECURSIVE DecimalValue(_, _)
DecimalValue(s, acc) ==
    IF s = <<>> THEN acc ELSE DecimalValue(Tail(s), 10 * acc + DigitValue(Head(s)))

\* float(s): [raises, value]; the strings of the model are digit strings, "nan"
\* and strings float() rejects
ParseFloat(s) ==
    LET t == Strip(s)
    IN  IF t = <<"n", "a", "n">> THEN [raises |-> FALSE, value |-> NaN]
        ELSE IF t # <<>> /\ \A i \in 1..Len(t) : t[i] \in Digits
             THEN [raises |-> FALSE, value |-> DecimalValue(t, 0)]
        ELSE [raises |-> TRUE, value |-> NaN]

\* str.lower() on the letters the model's labels are written with
LowerChar(ch) ==
    CASE ch = "A" -> "a" [] ch = "L" -> "l" [] ch = "N" -> "n" [] ch = "O" -> "o"
      [] ch = "P" -> "p" [] ch = "T" -> "t" [] OTHER -> ch
Lower(s) == [i \in 1..Len(s) |-> LowerChar(s[i])]

\* sub in s
Contains(s, sub) ==
    \E i \in 0..(Len(s) - Len(sub)) : SubSeq(s, i + 1, i + Len(sub)) = sub

\* the column labels find_nearest_agrovets reads
NAME == <<"n", "a", "m", "e">>
LAT == <<"l", "a", "t">>
LON == <<"l", "o", "n">>
PRODUCTS == <<"p", "r", "o", "d", "u", "c", "t", "s">>
PRICES == <<"p", "r", "i", "c", "e", "s">>
\* the substrings load_agrovet_data looks for besides 'name', 'lat' and 'lon'
LATITUDE == <<"l", "a", "t", "i", "t", "u", "d", "e">>
LONGITUDE == <<"l", "o", "n", "g", "i", "t", "u", "d", "e">>
PRODUCT == <<"p", "r", "o", "d", "u", "c", "t">>
PRICE == <<"p", "r", "i", "c", "e">>

(***************************************************************************)
(* DataFrame cells.  read_csv gives a float, nan for an empty cell, or the  *)
(* text of the cell.                                                       *)
(***************************************************************************)
FloatCell(x) == [kind |-> "float", num |-> x, text |-> <<>>]
NanCell == [kind |-> "nan", num |-> 0, text |-> <<>>]
TextCell(s) == [kind |-> "text", num |-> 0, text |-> s]

\* str(cell)
Str(cell) == IF cell.kind = "nan" THEN <<"n", "a", "n">> ELSE cell.text

\* float(cell) of a coordinate cell: [raises, value]
AsFloat(cell) ==
    CASE cell.kind = "float" -> [raises |-> FALSE, value |-> cell.num]
      [] cell.kind = "nan" -> [raises |-> FALSE, value |-> NaN]
      [] OTHER -> ParseFloat(cell.text)

(***************************************************************************)
(* A DataFrame: column labels and rows of cells; the DataFrame None.        *)
(***************************************************************************)
DataFrame(cols, rws) == [isNone |-> FALSE, columns |-> cols, rows |-> rws]
NoneFrame == [isNone |-> TRUE, columns |-> <<>>, rows |-> <<>>]

\* df.empty
Empty(df) == Len(df.columns) = 0 \/ Len(df.rows) = 0

\* label in df.columns
HasColumn(df, label) == \E i \in 1..Len(df.columns) : df.columns[i] = label

\* df[label] is a DataFrame, not a Series: several columns carry the label
Duplicated(df, label) ==
    Cardinality({i \in 1..Len(df.columns) : df.columns[i] = label}) > 1

\* the position of the column with that label
ColumnOf(df, label) == CHOOSE i \in 1..Len(df.columns) : df.columns[i] = label

\* row[label]
CellOf(df, row, label) == row[ColumnOf(df, label)]

\* df[label].astype(float).to_numpy(): [raises, values]
ColumnAsFloat(df, label) ==
    IF ~HasColumn(df, label) THEN [raises |-> TRUE, values |-> <<>>]
    ELSE LET parsed == [i \in 1..Len(df.rows) |-> AsFloat(CellOf(df, df.rows[i], label))]
         IN  [raises |-> \E i \in 1..Len(df.rows) : parsed[i].raises,
              values |-> [i \in 1..Len(df.rows) |-> parsed[i].value]]

(***************************************************************************)
(* AgrovetLocator                                                          *)
(***************************************************************************)
VARIABLES
    agrovet_locator,  \* app_components['agrovet_locator']: [present, agrovets_df]
    argsort_tie,      \* how this build of np.argsort orders equal keys
    call,             \* the last call and its arguments
    outcome,          \* how the last call ended and what it gave its caller
    recorded,         \* one earlier query with its outcome; others: another call followed it
    load,             \* the source read at startup and how load_from_csv ended
    inflight,         \* per thread: the find_nearest_agrovets call it is in, its locals
    heap,             \* the list objects calls have returned, by reference
    haversine,        \* the last distances computed between two points, both ways
    run,              \* the run of the prediction workflow: its stage and its state
    response,         \* what POST /predict answered
    constructed,      \* an AgrovetLocator built from a DataFrame handed to the constructor
    active_sessions,  \* SessionManager.active_sessions
    request_session,  \* per client: the session_id of request.session, 0 for none
    clock,            \* datetime.now(), in hours
    session_call      \* the last call of the SessionManager

locator_vars == <<agrovet_locator, argsort_tie, call, outcome, recorded, load, inflight, heap>>
workflow_vars == <<run, response>>
session_vars == <<active_sessions, request_session, clock, session_call>>
other_vars == <<haversine, workflow_vars, constructed, session_vars>>
vars == <<locator_vars, other_vars>>

\* _validate_dataframe: the required columns that are missing (non-empty: ValueError)
required_columns == <<NAME, LAT, LON, PRODUCTS, PRICES>>
MissingColumns(df) ==
    {required_columns[k] : k \in 1..Len(required_columns)}
        \ {Lower(Strip(df.columns[i])) : i \in 1..Len(df.columns)}

\* AgrovetLocator(agrovets_df): [raises, agrovets_df]
AgrovetLocator(df) ==
    [raises |-> ~df.isNone /\ MissingColumns(df) # {}, agrovets_df |-> df]

\* mutant of haversine_distance_vectorized: the distances rounded to 2 decimals
\* as they are computed
haversine_distance_rounded(user_lat, user_lon, agrovet_lats, agrovet_lons) ==
    [i \in 1..Len(agrovet_lats) |->
        IF agrovet_lats[i] = NaN \/ agrovet_lons[i] = NaN THEN NaN
        ELSE LET d == Distances[<<user_lat, user_lon, agrovet_lats[i], agrovet_lons[i]>>]
                 q == d \div 10
             IN  IF d % 10 < 5 \/ (d % 10 = 5 /\ q % 2 = 0) THEN 10 * q ELSE 10 * (q + 1)]

\* haversine_distance_vectorized over arrays of latitudes and longitudes; an
\* operand nan gives nan
haversine_distance_vectorized(user_lat, user_lon, agrovet_lats, agrovet_lons) ==
    [i \in 1..Len(agrovet_lats) |->
        IF agrovet_lats[i] = NaN \/ agrovet_lons[i] = NaN THEN NaN
        ELSE Distances[<<user_lat, user_lon, agrovet_lats[i], agrovet_lons[i]>>]]

\* mutant of ValidMask: no radius filter
ValidMaskNoRadius(distances, max_distance_km) ==
    [i \in 1..Len(distances) |-> distances[i] # NaN]

\* mutant of ValidMask: the comparison turned around
ValidMaskBeyond(distances, max_distance_km) ==
    [i \in 1..Len(distances) |-> distances[i] # NaN /\ distances[i] >= max_distance_km]

\* distances <= max_distance_km; a comparison with nan is False
ValidMask(distances, max_distance_km) ==
    [i \in 1..Len(distances) |-> distances[i] # NaN /\ distances[i] <= max_distance_km]

RECURSIVE Where(_, _)
\* np.where(mask)[0]: the positions that hold True, ascending, from position i on
Where(mask, i) ==
    IF i > Len(mask) THEN <<>>
    ELSE IF mask[i] THEN <<i>> \o Where(mask, i + 1)
    ELSE Where(mask, i + 1)

\* position i before position j among equal values: argsort_tie orders the
\* positions up to MaxRows, and the positions beyond them block by block
TieBefore(i, j) ==
    LET ki == argsort_tie[((i - 1) % MaxRows) + 1]
        kj == argsort_tie[((j - 1) % MaxRows) + 1]
    IN  ki < kj \/ (ki = kj /\ i < j)

\* mutant of Argsort: no sort at all
ArgsortUnsorted(xs) == [k \in 1..Len(xs) |-> k]

\* mutant of Argsort: equal values ordered by state a sort leaves behind, one
\* way on the first call and the other way afterwards
ArgsortUnseeded(xs) ==
    LET Tie(i, j) == IF call.op = "none" THEN TieBefore(i, j) ELSE TieBefore(j, i)
        Before(i, j) == xs[i] < xs[j] \/ (xs[i] = xs[j] /\ Tie(i, j))
        Rank(i) == 1 + Cardinality({j \in 1..Len(xs) : Before(j, i)})
    IN  [k \in 1..Len(xs) |-> CHOOSE i \in 1..Len(xs) : Rank(i) = k]

\* np.argsort(xs), default kind: ascending by value; the default sort is not
\* stable, equal values come in the order this build gives them
Argsort(xs) ==
    LET Before(i, j) == xs[i] < xs[j] \/ (xs[i] = xs[j] /\ TieBefore(i, j))
        Rank(i) == 1 + Cardinality({j \in 1..Len(xs) : Before(j, i)})
    IN  [k \in 1..Len(xs) |-> CHOOSE i \in 1..Len(xs) : Rank(i) = k]

\* mutant of Take: the slice forgotten
TakeAll(s, top_k) == s

\* s[:top_k], top_k >= 0
Take(s, top_k) == SubSeq(s, 1, IF top_k < Len(s) THEN top_k ELSE Len(s))

\* round(d, 2), d in units of 0.001: to the nearest multiple of 0.01, a tie to
\* the even one
Round2(d) ==
    LET q == d \div 10
        rem == d % 10
    IN  IF rem < 5 \/ (rem = 5 /\ q % 2 = 0) THEN 10 * q ELSE 10 * (q + 1)

RECURSIVE StrippedNonEmpty(_)
\* [p.strip() for p in fields if p.strip()]
StrippedNonEmpty(fields) ==
    IF fields = <<>> THEN <<>>
    ELSE LET p == Strip(Head(fields))
         IN  (IF p # <<>> THEN <<p>> ELSE <<>>) \o StrippedNonEmpty(Tail(fields))

RECURSIVE ParsedFloats(_)
\* the prices loop: float(price.strip()) appended, ValueError skipped
ParsedFloats(fields) ==
    IF fields = <<>> THEN <<>>
    ELSE LET f == ParseFloat(Strip(Head(fields)))
         IN  (IF f.raises THEN <<>> ELSE <<f.value>>) \o ParsedFloats(Tail(fields))

\* the name column of the result
NameColumn(df) == IF HasColumn(df, NAME) THEN NAME ELSE df.columns[1]

\* mutant of ResultOf: the row read at position 0 instead of original_idx
ResultOfFirstRow(df, original_idx, distance) ==
    LET row == df.rows[1]
    IN  [name |-> Str(CellOf(df, row, NameColumn(df))),
         latitude |-> AsFloat(CellOf(df, row, LAT)).value,
         longitude |-> AsFloat(CellOf(df, row, LON)).value,
         products |-> StrippedNonEmpty(Split(Str(CellOf(df, row, PRODUCTS)))),
         prices |-> ParsedFloats(Split(Str(CellOf(df, row, PRICES)))),
         distance_km |-> Round2(distance)]

\* one entry of results
ResultOf(df, original_idx, distance) ==
    LET row == df.rows[original_idx]
    IN  [name |-> Str(CellOf(df, row, NameColumn(df))),
         latitude |-> AsFloat(CellOf(df, row, LAT)).value,
         longitude |-> AsFloat(CellOf(df, row, LON)).value,
         products |-> StrippedNonEmpty(Split(Str(CellOf(df, row, PRODUCTS)))),
         prices |-> ParsedFloats(Split(Str(CellOf(df, row, PRICES)))),
         distance_km |-> Round2(distance)]

\* find_nearest_agrovets: the list it returns
find_nearest_agrovets(df, user_lat, user_lon, top_k, max_distance_km) ==
    IF df.isNone \/ Empty(df) THEN <<>>
    ELSE
    LET agrovet_lats == ColumnAsFloat(df, LAT)
        agrovet_lons == ColumnAsFloat(df, LON)
        distances == haversine_distance_vectorized(
                        user_lat, user_lon, agrovet_lats.values, agrovet_lons.values)
        valid_indices == Where(ValidMask(distances, max_distance_km), 1)
        valid_distances == [k \in 1..Len(valid_indices) |-> distances[valid_indices[k]]]
        sorted_indices == Take(Argsort(valid_distances), top_k)
    IN  IF agrovet_lats.raises \/ agrovet_lons.raises THEN <<>>          \* except
        ELSE IF user_lat = None \/ user_lon = None THEN <<>>             \* except
        \* two-dimensional coordinates: the arrays do not broadcast, or no row is
        \* in radius, or float() of a DataFrame raises
        ELSE IF Duplicated(df, LAT) \/ Duplicated(df, LON) THEN <<>>     \* except
        ELSE IF Len(valid_indices) = 0 THEN <<>>
        ELSE IF ~HasColumn(df, PRODUCTS) \/ ~HasColumn(df, PRICES) THEN <<>>  \* except
        ELSE [k \in 1..Len(sorted_indices) |->
                ResultOf(df, valid_indices[sorted_indices[k]],
                         valid_distances[sorted_indices[k]])]

\* find_nearest_agrovets up to the sort: returned says the call has returned []
\* already, otherwise the locals the loop reads
Ranking(df, user_lat, user_lon, top_k, max_distance_km) ==
    LET none == [returned |-> TRUE, valid_indices |-> <<>>, valid_distances |-> <<>>,
                 sorted_indices |-> <<>>]
    IN  IF df.isNone \/ Empty(df) THEN none
        ELSE
        LET agrovet_lats == ColumnAsFloat(df, LAT)
            agrovet_lons == ColumnAsFloat(df, LON)
            distances == haversine_distance_vectorized(
                            user_lat, user_lon, agrovet_lats.values, agrovet_lons.values)
            valid_indices == Where(ValidMask(distances, max_distance_km), 1)
            valid_distances == [k \in 1..Len(valid_indices) |-> distances[valid_indices[k]]]
        IN  IF agrovet_lats.raises \/ agrovet_lons.raises THEN none      \* except
            ELSE IF user_lat = None \/ user_lon = None THEN none         \* except
            ELSE IF Duplicated(df, LAT) \/ Duplicated(df, LON) THEN none \* except
            ELSE IF Len(valid_indices) = 0 THEN none
            ELSE [returned |-> FALSE, valid_indices |-> valid_indices,
                  valid_distances |-> valid_distances,
                  sorted_indices |-> Take(Argsort(valid_distances), top_k)]

\* find_nearest_agrovets from the loop on: the list it returns
Shaping(df, valid_indices, valid_distances, sorted_indices) ==
    IF ~HasColumn(df, PRODUCTS) \/ ~HasColumn(df, PRICES) THEN <<>>      \* except
    ELSE [k \in 1..Len(sorted_indices) |->
            ResultOf(df, valid_indices[sorted_indices[k]],
                     valid_distances[sorted_indices[k]])]

(***************************************************************************)
(* The catalogs and the queries of the model.                              *)
(***************************************************************************)
RowA == <<TextCell(<<"A">>), FloatCell(0), FloatCell(0),
          TextCell(<<"N", ",", " ", "D">>), TextCell(<<"6", "0", ",", "5">>)>>
RowB == <<TextCell(<<"B">>), FloatCell(0), FloatCell(1),
          TextCell(<<"N", ",", "C">>), TextCell(<<"6", "0", ",", "b">>)>>
\* the products and prices cells left empty
RowC == <<TextCell(<<"C">>), FloatCell(4), FloatCell(4),
          NanCell, NanCell>>
RowD == <<TextCell(<<"D">>), FloatCell(1), FloatCell(0),
          TextCell(<<"N", ",", ",", "D", " ">>), TextCell(<<" ", "5", " ", ",", "6">>)>>
\* an empty latitude cell, and a latitude cell that is no number
RowN == <<TextCell(<<"N">>), NanCell, FloatCell(0),
          TextCell(<<"N">>), TextCell(<<"5">>)>>
RowX == <<TextCell(<<"X">>), TextCell(<<"x">>), FloatCell(0),
          TextCell(<<"N">>), TextCell(<<"5">>)>>
\* a latitude out of range
RowO == <<TextCell(<<"O">>), FloatCell(91), FloatCell(0),
          TextCell(<<"N">>), TextCell(<<"5">>)>>
\* the rows of the source file, in file order
SourceRows == <<RowC, RowB, RowD, RowA, RowN, RowX, RowO>>

RECURSIVE Pick(_, _)
\* the rows of SourceRows at the positions kept, in file order, from position i on
Pick(kept, i) ==
    IF i > Len(SourceRows) THEN <<>>
    ELSE (IF i \in kept THEN <<SourceRows[i]>> ELSE <<>>) \o Pick(kept, i + 1)

\* the tables of at most MaxRows rows of the source
RowLists ==
    {Pick(kept, 1) : kept \in {k \in SUBSET (1..Len(SourceRows)) : Cardinality(k) <= MaxRows}}

(***************************************************************************)
(* load_agrovet_data                                                       *)
(***************************************************************************)
\* the file at csv_path: missing, one read_csv raises on, or a header line and rows
MissingFile == [exists |-> FALSE, parses |-> FALSE, header |-> <<>>, rows |-> <<>>]
CorruptFile == [exists |-> TRUE, parses |-> FALSE, header |-> <<>>, rows |-> <<>>]
CsvFile(header, rws) == [exists |-> TRUE, parses |-> TRUE, header |-> header, rows |-> rws]

\* the header lines of the model: the canonical labels; labels to strip, lowercase
\* and map; 'Latitude' and 'Longitude'; a products column called 'product_name'
Headers ==
    {<<NAME, LAT, LON, PRODUCTS, PRICES>>,
     <<<<" ", "N", "a", "m", "e">>, <<"L", "A", "T">>, <<"L", "o", "n", " ">>, <<"P", "r", "o", "d", "u", "c", "t">>, <<"p", "r", "i", "c", "e">>>>,
     <<NAME, <<"L", "a", "t", "i", "t", "u", "d", "e">>, <<"L", "o", "n", "g", "i", "t", "u", "d", "e">>, PRODUCTS, PRICES>>,
     <<NAME, LAT, LON, <<"p", "r", "o", "d", "u", "c", "t", "_", "n", "a", "m", "e">>, PRICES>>}

\* a file with a second latitude column, 'lat_deg'
WideFile ==
    CsvFile(<<NAME, LAT, LON, PRODUCTS, PRICES, <<"l", "a", "t", "_", "d", "e", "g">>>>,
            <<Append(RowA, FloatCell(0)), Append(RowB, FloatCell(0))>>)

Sources ==
    {MissingFile, CorruptFile, WideFile}
        \cup {CsvFile(h, rws) : h \in Headers, rws \in RowLists}

\* mutant of ColumnMapping: the 'product' rule tried before the 'name' rule
ColumnMappingProductFirst(col) ==
    IF Contains(col, PRODUCT) THEN PRODUCTS
    ELSE IF Contains(col, NAME) THEN NAME
    ELSE IF Contains(col, LAT) /\ ~Contains(col, LATITUDE) THEN LAT
    ELSE IF Contains(col, LON) /\ ~Contains(col, LONGITUDE) THEN LON
    ELSE IF Contains(col, PRICE) THEN PRICES
    ELSE col

\* column_mapping[col] of the if/elif chain, col itself where the chain maps nothing
ColumnMapping(col) ==
    IF Contains(col, NAME) THEN NAME
    ELSE IF Contains(col, LAT) /\ ~Contains(col, LATITUDE) THEN LAT
    ELSE IF Contains(col, LON) /\ ~Contains(col, LONGITUDE) THEN LON
    ELSE IF Contains(col, PRODUCT) THEN PRODUCTS
    ELSE IF Contains(col, PRICE) THEN PRICES
    ELSE col

\* sample_data; its coordinates to the whole degree
SampleProducts == <<"N", "P", "K", ",", " ", "C", "A", "N", ",", " ", "D", "A", "P">>
SamplePrices == <<"6", "0", ",", "5", "5", ",", "7", "0">>
sample_data == DataFrame(<<NAME, LAT, LON, PRODUCTS, PRICES>>, <<
    <<TextCell(<<"N", "n", "n", "n">>),
      FloatCell(0 - 2), FloatCell(37), TextCell(SampleProducts), TextCell(SamplePrices)>>,
    <<TextCell(<<"T", "e", "s", "o">>),
      FloatCell(0 - 2), FloatCell(37), TextCell(SampleProducts), TextCell(SamplePrices)>>,
    <<TextCell(<<"G", "O", "O", "D", "W", "I", "L", "L", " ", "F", "A", "M", "E", "R", "S", " ", "A", "G", "R", "O", "V", "E", "T">>),
      FloatCell(0), FloatCell(34), TextCell(SampleProducts), TextCell(SamplePrices)>>,
    <<TextCell(<<"F", "a", "r", "m", " ", "C", "h", "o", "i", "c", "e", " ", "A", "g", "r", "o", "v", "e", "t">>),
      FloatCell(0), FloatCell(34), TextCell(SampleProducts), TextCell(SamplePrices)>>,
    <<TextCell(<<"K", "e", "m", "o", "d", "o", " ", "A", "g", "r", "o", "v", "e", "t">>),
      FloatCell(0), FloatCell(34), TextCell(SampleProducts), TextCell(SamplePrices)>>>>)

\* load_agrovet_data(csv_path): the DataFrame it returns, NoneFrame for None
load_agrovet_data(source) ==
    IF ~source.exists THEN sample_data
    ELSE IF ~source.parses THEN NoneFrame                               \* except
    ELSE LET normalized == [i \in 1..Len(source.header) |-> Lower(Strip(source.header[i]))]
         IN  DataFrame([i \in 1..Len(normalized) |-> ColumnMapping(normalized[i])],
                       source.rows)

\* AgrovetLocator.load_from_csv(csv_path): [raises, agrovets_df]
load_from_csv(source) == AgrovetLocator(load_agrovet_data(source))

\* what the loader hands the constructor
LoadedFrames == {load_agrovet_data(source) : source \in Sources}

\* the user locations of a query: in range, longitude out of range, latitude None
UserLocations == {<<0, 0>>, <<0, 359>>, <<None, 0>>}
\* soil_data's latitude and longitude, None for a key it lacks
SoilLocations == UserLocations \cup {<<91, 0>>, <<0, None>>}
\* top_k
TopKs == {1, 2}
\* max_distance_km, in units of 0.001 km
Radii == {10000, 111190, 628758}

\* max_distance_km of the calls that run in threads
ConcurrentRadii == {628758}

DEFAULT_AGROVET_COUNT == 5
MAX_AGROVET_DISTANCE_KM == 500

NoCall == [op |-> "none", user_lat |-> None, user_lon |-> None,
           top_k |-> 0, max_distance_km |-> 0]
NoOutcome == [kind |-> "none", value |-> <<>>]

\* the threads that run the workflow's nodes, and the references to list objects
Threads == 1..MaxThreads
References == 1..MaxThreads
\* a thread in no call
Idle == [pc |-> "idle", call |-> NoCall, valid_indices |-> <<>>, valid_distances |-> <<>>,
         sorted_indices |-> <<>>, ref |-> 0, overlapped |-> FALSE]

\* no distance computed yet
NoDistances == [from |-> <<>>, to |-> <<>>, there |-> <<>>, back |-> <<>>]

(***************************************************************************)
(* The prediction workflow and POST /predict.  Strings stand for the       *)
(* predictions, "None" for a value that is None; confidences are in        *)
(* percent.                                                                *)
(***************************************************************************)
Unset == "None"
UNKNOWN == "UNKNOWN"

\* AppConfig.FERTILITY_STATUS_MAP and AppConfig.FERTILIZER_TYPE_MAP
FERTILITY_STATUS_MAP == (0 :> "MODERATELY HEALTHY") @@ (1 :> "POOR") @@ (2 :> "VERY POOR")
FERTILIZER_TYPE_MAP == (0 :> "NPK") @@ (1 :> "TSP")

\* dict.get(key, default)
Get(map, key, default) == IF key \in DOMAIN map THEN map[key] ELSE default

\* what app_components may hold: the two models with their preprocessors, the llm
AppComponents ==
    [fertility : BOOLEAN, fertilizer : BOOLEAN, llm : BOOLEAN]

\* initial_state of predict_soil_fertility
InitialState(loc, components) ==
    [soil_data |-> [latitude |-> loc[1], longitude |-> loc[2]],
     fertility_prediction |-> Unset,
     fertility_confidence |-> None,
     fertilizer_prediction |-> Unset,
     fertilizer_confidence |-> None,
     nearest_agrovets |-> <<>>,
     app_components |-> components,
     structured_response |-> Unset]

\* no run of the workflow yet, and no answer of POST /predict
NoRun ==
    [entry |-> "none", stage |-> "idle", executed |-> <<>>,
     state |-> InitialState(<<None, None>>,
                            [fertility |-> FALSE, fertilizer |-> FALSE, llm |-> FALSE]),
     fertilizer_model_called |-> FALSE]
NoResponse ==
    [status_code |-> 0, soil_fertility_status |-> Unset, fertilizer_recommendation |-> Unset,
     nearest_agrovets |-> <<>>, structured_response |-> Unset]

\* no locator built by hand yet
NoConstruction ==
    [given |-> FALSE, raises |-> FALSE, agrovets_df |-> NoneFrame,
     call |-> NoCall, results |-> <<>>]

\* the clients of the session cookie, and the session ids uuid4 draws
Clients == 1..MaxClients
SessionIds == 1..MaxClients
\* session.get("session_id") of a session without one
NoSessionId == 0
NoSessionCall ==
    [op |-> "none", client |-> 0, session_id |-> NoSessionId, found |-> FALSE,
     follows_get |-> FALSE]

(***************************************************************************)
(* Initial states: initialize_app_components has run.                      *)
(***************************************************************************)
\* initialize_agrovet_locator + initialize_app_components: the component is
\* there unless the constructor raised
Component(df) ==
    IF AgrovetLocator(df).raises
    THEN [present |-> FALSE, agrovets_df |-> NoneFrame]
    ELSE [present |-> TRUE, agrovets_df |-> AgrovetLocator(df).agrovets_df]

\* load_from_csv as initialize_agrovet_locator sees it end
Loaded(source) ==
    [source |-> source,
     outcome |-> IF load_from_csv(source).raises THEN "ValueError" ELSE "return",
     agrovets_df |-> load_agrovet_data(source)]

Init ==
    /\ \E source \in Sources :
          /\ load = Loaded(source)
          /\ agrovet_locator = Component(load_agrovet_data(source))
    /\ argsort_tie \in Permutations(1..MaxRows)
    /\ call = NoCall
    /\ outcome = NoOutcome
    /\ recorded = [call |-> NoCall, outcome |-> NoOutcome, others |-> FALSE]
    /\ inflight = [t \in Threads |-> Idle]
    /\ heap = [ref \in References |-> <<>>]
    /\ haversine = NoDistances
    /\ run = NoRun
    /\ response = NoResponse
    /\ constructed = NoConstruction
    /\ active_sessions = <<>>
    /\ request_session = [client \in Clients |-> NoSessionId]
    /\ clock = 0
    /\ session_call = NoSessionCall

(***************************************************************************)
(* Operations                                                              *)
(***************************************************************************)
\* recorded, once call c has followed the recorded query
Following(c) ==
    IF recorded.call.op # "none" /\ c # recorded.call
    THEN [recorded EXCEPT !.others = TRUE] ELSE recorded

\* mutant of Query: the query keeps its top_k rows in self.agrovets_df
QueryInPlace(record) ==
    /\ agrovet_locator.present
    /\ \E loc \in UserLocations, top_k \in TopKs, max_distance_km \in Radii :
        LET c == [op |-> "find", user_lat |-> loc[1], user_lon |-> loc[2],
                  top_k |-> top_k, max_distance_km |-> max_distance_km]
            o == [kind |-> "return",
                  value |-> find_nearest_agrovets(agrovet_locator.agrovets_df,
                                loc[1], loc[2], top_k, max_distance_km)]
        IN  /\ call' = c
            /\ outcome' = o
            /\ recorded' = IF record THEN [call |-> c, outcome |-> o, others |-> FALSE]
                           ELSE Following(c)
            /\ agrovet_locator' =
                  [agrovet_locator EXCEPT !.agrovets_df.rows = Take(@, top_k)]
    /\ UNCHANGED <<argsort_tie, load, inflight, heap>>
    /\ UNCHANGED other_vars

\* a caller queries the locator; record says whether the query is the recorded one
Query(record) ==
    /\ agrovet_locator.present
    /\ \E loc \in UserLocations, top_k \in TopKs, max_distance_km \in Radii :
        LET c == [op |-> "find", user_lat |-> loc[1], user_lon |-> loc[2],
                  top_k |-> top_k, max_distance_km |-> max_distance_km]
            o == [kind |-> "return",
                  value |-> find_nearest_agrovets(agrovet_locator.agrovets_df,
                                loc[1], loc[2], top_k, max_distance_km)]
        IN  /\ call' = c
            /\ outcome' = o
            /\ recorded' = IF record THEN [call |-> c, outcome |-> o, others |-> FALSE]
                           ELSE Following(c)
    /\ UNCHANGED <<agrovet_locator, argsort_tie, load, inflight, heap>>
    /\ UNCHANGED other_vars

FindNearestAgrovets == Query(FALSE)

FindNearestAgrovetsRecorded == recorded.call.op = "none" /\ Query(TRUE)

\* find_nearest_agrovets_node: state["nearest_agrovets"] of the state it returns;
\* soil_data holds None for a key it lacks
nearest_agrovets_of(component, soil_data) ==
    IF ~component.present THEN <<>>                                     \* except
    ELSE IF soil_data.latitude = None \/ soil_data.longitude = None THEN <<>>
    ELSE find_nearest_agrovets(component.agrovets_df,
            soil_data.latitude, soil_data.longitude,
            DEFAULT_AGROVET_COUNT, MAX_AGROVET_DISTANCE_KM * 1000)

\* the workflow runs the agrovet search node
FindNearestAgrovetsNode ==
    /\ \E loc \in SoilLocations :
        LET soil_data == [latitude |-> loc[1], longitude |-> loc[2]]
            c == [op |-> "node", user_lat |-> loc[1], user_lon |-> loc[2],
                  top_k |-> DEFAULT_AGROVET_COUNT,
                  max_distance_km |-> MAX_AGROVET_DISTANCE_KM * 1000]
        IN  /\ call' = c
            /\ outcome' = [kind |-> "return",
                           value |-> nearest_agrovets_of(agrovet_locator, soil_data)]
            /\ recorded' = Following(c)
    /\ UNCHANGED <<agrovet_locator, argsort_tie, load, inflight, heap>>
    /\ UNCHANGED other_vars

(***************************************************************************)
(* find_nearest_agrovets in threads: a call reads self.agrovets_df for the  *)
(* coordinates, and again, row by row, when it builds its results.         *)
(***************************************************************************)
\* mutant of NewList: one list object kept and handed out by every call
SharedList(live) == 1

\* [] and results = []: a new list object, at a reference no live list is at
NewList(live) == CHOOSE ref \in References \ live : \A other \in References \ live : ref <= other

\* the references the threads other than t hold
LiveBeside(t) == {inflight[u].ref : u \in Threads \ {t}} \ {0}

\* the heap once thread t has let go of the list of its last call
Released(t) ==
    IF inflight[t].ref \in References \ LiveBeside(t)
    THEN [heap EXCEPT ![inflight[t].ref] = <<>>] ELSE heap

\* thread t enters find_nearest_agrovets and runs it up to the sort
FindNearestAgrovetsRank(t) ==
    /\ agrovet_locator.present
    /\ inflight[t].pc # "ranked"
    /\ \E loc \in UserLocations, top_k \in TopKs, max_distance_km \in ConcurrentRadii :
        LET c == [op |-> "find", user_lat |-> loc[1], user_lon |-> loc[2],
                  top_k |-> top_k, max_distance_km |-> max_distance_km]
            ranking == Ranking(agrovet_locator.agrovets_df,
                               loc[1], loc[2], top_k, max_distance_km)
            others == {u \in Threads \ {t} : inflight[u].pc = "ranked"}
            ref == NewList(LiveBeside(t))
            mine == [pc |-> IF ranking.returned THEN "returned" ELSE "ranked",
                     call |-> c,
                     valid_indices |-> ranking.valid_indices,
                     valid_distances |-> ranking.valid_distances,
                     sorted_indices |-> ranking.sorted_indices,
                     ref |-> IF ranking.returned THEN ref ELSE 0,
                     overlapped |-> others # {}]
        IN  /\ inflight' = [u \in Threads |->
                              IF u = t THEN mine
                              ELSE IF u \in others THEN [inflight[u] EXCEPT !.overlapped = TRUE]
                              ELSE inflight[u]]
            /\ heap' = Released(t)
    /\ UNCHANGED <<agrovet_locator, argsort_tie, call, outcome, recorded, load>>
    /\ UNCHANGED other_vars

\* thread t builds its results and returns them
FindNearestAgrovetsShape(t) ==
    /\ inflight[t].pc = "ranked"
    /\ LET ref == NewList(LiveBeside(t))
           results == Shaping(agrovet_locator.agrovets_df, inflight[t].valid_indices,
                              inflight[t].valid_distances, inflight[t].sorted_indices)
       IN  /\ inflight' = [inflight EXCEPT ![t].pc = "returned", ![t].ref = ref]
           /\ heap' = [heap EXCEPT ![ref] = results]
    /\ UNCHANGED <<agrovet_locator, argsort_tie, call, outcome, recorded, load>>
    /\ UNCHANGED other_vars

Next == FindNearestAgrovets \/ FindNearestAgrovetsNode

Spec == Init /\ [][Next]_vars

\* haversine_distance_vectorized from a point to an array of one point, and from
\* that point to an array of the first
HaversineDistanceVectorized ==
    /\ \E a \in UserPoints, b \in AgrovetPoints :
          haversine' = [from |-> a, to |-> b,
                        there |-> haversine_distance_vectorized(a[1], a[2], <<b[1]>>, <<b[2]>>),
                        back |-> haversine_distance_vectorized(b[1], b[2], <<a[1]>>, <<a[2]>>)]
    /\ UNCHANGED <<locator_vars, workflow_vars, constructed, session_vars>>

NextHaversine == HaversineDistanceVectorized

SpecHaversine == Init /\ [][NextHaversine]_vars

\* the same program, one of its queries recorded for comparison with later ones
NextRecorded == FindNearestAgrovetsRecorded \/ FindNearestAgrovets \/ FindNearestAgrovetsNode

SpecRecorded == Init /\ [][NextRecorded]_vars

\* the same program, its queries running in threads
NextConcurrent == \E t \in Threads : FindNearestAgrovetsRank(t) \/ FindNearestAgrovetsShape(t)

SpecConcurrent == Init /\ [][NextConcurrent]_vars
(***************************************************************************)
(* SessionManager.  A session is [predictions, last_accessed]; the          *)
(* timestamps are the hour of the clock.                                    *)
(***************************************************************************)
\* prediction_data of predict_soil_fertility, and of any other caller
prediction_data(state) ==
    [fertility_prediction |-> state.fertility_prediction,
     fertilizer_prediction |-> state.fertilizer_prediction]

\* update_session: active_sessions once it has returned
update_session(sessions, session_id, data, now) ==
    IF session_id # NoSessionId /\ session_id \in DOMAIN sessions
    THEN [sessions EXCEPT ![session_id] =
             [predictions |-> Append(@.predictions, data), last_accessed |-> now]]
    ELSE sessions

(***************************************************************************)
(* The nodes of the prediction workflow, the graph and POST /predict.      *)
(***************************************************************************)
\* how the preprocessing and the model of a prediction node behave in one call:
\* raises is "none", "transform" (before the model is called) or "predict"
FertilityRuns ==
    {[raises |-> "none", prediction |-> 0, probability |-> 80],
     [raises |-> "none", prediction |-> 3, probability |-> 80],
     [raises |-> "transform", prediction |-> 0, probability |-> 0]}
FertilizerRuns ==
    {[raises |-> "none", prediction |-> 0, probability |-> 60],
     [raises |-> "none", prediction |-> 2, probability |-> 60],
     [raises |-> "predict", prediction |-> 0, probability |-> 0]}
\* how the llm and the parsing of its answer behave in one call
LlmRuns == {"parsed", "unparseable", "raises"}

\* the latitude and longitude SoilData lets through
RequestLocations == {<<0, 0>>}
\* soil_data's latitude and longitude in a state handed to the workflow directly
InvokedLocations == {<<0, 0>>, <<0, None>>}

\* predict_fertility_node: [raised, state]
predict_fertility_node(state, model) ==
    IF ~state.app_components.fertility \/ model.raises # "none"
    THEN [raised |-> FALSE,                                             \* except
          state |-> [state EXCEPT !.fertility_prediction = UNKNOWN,
                                  !.fertility_confidence = 0]]
    ELSE [raised |-> FALSE,
          state |-> [state EXCEPT
                        !.fertility_prediction =
                            Get(FERTILITY_STATUS_MAP, model.prediction, UNKNOWN),
                        !.fertility_confidence = model.probability]]

\* mutant of predict_fertilizer_node: the fertility prediction is not looked at
predict_fertilizer_node_unchecked(state, model) ==
    IF ~state.app_components.fertilizer \/ model.raises = "transform"
    THEN [raised |-> FALSE, called |-> FALSE,
          state |-> [state EXCEPT !.fertilizer_prediction = UNKNOWN,
                                  !.fertilizer_confidence = 0]]
    ELSE IF model.raises = "predict"
    THEN [raised |-> FALSE, called |-> TRUE,
          state |-> [state EXCEPT !.fertilizer_prediction = UNKNOWN,
                                  !.fertilizer_confidence = 0]]
    ELSE [raised |-> FALSE, called |-> TRUE,
          state |-> [state EXCEPT
                        !.fertilizer_prediction =
                            Get(FERTILIZER_TYPE_MAP, model.prediction, UNKNOWN),
                        !.fertilizer_confidence = model.probability]]

\* predict_fertilizer_node: [raised, called, state]; called: fertilizer_model.predict ran
predict_fertilizer_node(state, model) ==
    IF \/ ~state.app_components.fertilizer
       \/ state.fertility_prediction = Unset
       \/ state.fertility_prediction = UNKNOWN
       \/ model.raises = "transform"
    THEN [raised |-> FALSE, called |-> FALSE,                           \* except
          state |-> [state EXCEPT !.fertilizer_prediction = UNKNOWN,
                                  !.fertilizer_confidence = 0]]
    ELSE IF model.raises = "predict"
    THEN [raised |-> FALSE, called |-> TRUE,                            \* except
          state |-> [state EXCEPT !.fertilizer_prediction = UNKNOWN,
                                  !.fertilizer_confidence = 0]]
    ELSE [raised |-> FALSE, called |-> TRUE,
          state |-> [state EXCEPT
                        !.fertilizer_prediction =
                            Get(FERTILIZER_TYPE_MAP, model.prediction, UNKNOWN),
                        !.fertilizer_confidence = model.probability]]

\* mutant of find_nearest_agrovets_node: no except clause, the ValueError of an
\* absent locator reaches the workflow
find_nearest_agrovets_node_unguarded(state, component) ==
    [raised |-> ~component.present,
     state |-> [state EXCEPT !.nearest_agrovets =
                    nearest_agrovets_of(component, state.soil_data)]]

\* find_nearest_agrovets_node: [raised, state]
find_nearest_agrovets_node(state, component) ==
    [raised |-> FALSE,
     state |-> [state EXCEPT !.nearest_agrovets =
                    nearest_agrovets_of(component, state.soil_data)]]

\* the fields SoilExplanation and SoilAnalysisResponse require
SoilExplanation ==
    {"summary", "fertility_analysis", "nutrient_analysis", "ph_analysis",
     "soil_texture_analysis", "overall_assessment"}
SoilAnalysisResponse ==
    {"explanation", "recommendations", "fertilizer_justification",
     "confidence_assessment", "long_term_strategy"}

\* pydantic's check of the keyword arguments of a model: ValidationError unless
\* every required field is given
Validates(required, given) == required \subseteq given

\* generate_fallback_response: [raised, state]
generate_fallback_response(state) ==
    LET explanation == {"summary", "fertility_analysis", "nutrient_analysis", "ph_analysis"}
        fallback_response == {"explanation", "recommendations",
                              "fertilizer_justification", "confidence_assessment"}
    IN  IF \/ state.fertility_prediction = Unset                       \* None.lower()
           \/ ~Validates(SoilExplanation, explanation)
           \/ ~Validates(SoilAnalysisResponse, fallback_response)
        THEN [raised |-> TRUE, state |-> state]
        ELSE [raised |-> FALSE, state |-> [state EXCEPT !.structured_response = "fallback"]]

\* generate_explanation_node: [raised, state]; a fallback that raises inside
\* the try is caught and the fallback of the except clause raises again
generate_explanation_node(state, llm) ==
    IF ~state.app_components.llm \/ llm \in {"unparseable", "raises"}
    THEN generate_fallback_response(state)
    ELSE [raised |-> FALSE, state |-> [state EXCEPT !.structured_response = "llm"]]

\* the order of the graph's nodes
Stages == <<"predict_fertility", "predict_fertilizer", "find_nearest_agrovets",
            "generate_explanation">>

\* mutant of Edge: the search stage is left out of the graph
EdgeAroundSearch(node) ==
    IF node = "START" THEN "predict_fertility"
    ELSE IF node = "predict_fertility" THEN "predict_fertilizer"
    ELSE IF node = "predict_fertilizer" THEN "generate_explanation"
    ELSE IF node = "find_nearest_agrovets" THEN "generate_explanation"
    ELSE "END"

\* workflow.add_edge: the node that follows node
Edge(node) ==
    IF node = "START" THEN "predict_fertility"
    ELSE IF node = "predict_fertility" THEN "predict_fertilizer"
    ELSE IF node = "predict_fertilizer" THEN "find_nearest_agrovets"
    ELSE IF node = "find_nearest_agrovets" THEN "generate_explanation"
    ELSE "END"

\* no run is under way
AtRest ==
    /\ run.stage \in {"idle", "END", "raised"}
    /\ run.entry = "predict" => response.status_code # 0

\* the run once node has returned, or raised
Ran(node, returned) ==
    [run EXCEPT !.executed = Append(@, node),
                !.state = returned.state,
                !.stage = IF returned.raised THEN "raised" ELSE Edge(node)]

\* validate_models_loaded
validate_models_loaded(components) == components.fertility /\ components.fertilizer

\* POST /predict up to the await of the workflow
PredictSoilFertility ==
    /\ AtRest
    /\ \E loc \in RequestLocations, components \in AppComponents :
          IF ~validate_models_loaded(components)
          THEN /\ run' = [NoRun EXCEPT !.entry = "predict",
                                       !.state = InitialState(loc, components)]
               /\ response' = [NoResponse EXCEPT !.status_code = 500]
          ELSE /\ run' = [NoRun EXCEPT !.entry = "predict", !.stage = Edge("START"),
                                       !.state = InitialState(loc, components)]
               /\ response' = NoResponse
    /\ UNCHANGED <<locator_vars, haversine, constructed, session_vars>>

\* prediction_workflow.ainvoke of a state some other caller built
Ainvoke ==
    /\ AtRest
    /\ \E loc \in InvokedLocations, components \in AppComponents :
          run' = [NoRun EXCEPT !.entry = "ainvoke", !.stage = Edge("START"),
                               !.state = InitialState(loc, components)]
    /\ response' = NoResponse
    /\ UNCHANGED <<locator_vars, haversine, constructed, session_vars>>

PredictFertilityNode ==
    /\ run.stage = "predict_fertility"
    /\ \E model \in FertilityRuns :
          run' = Ran("predict_fertility", predict_fertility_node(run.state, model))
    /\ UNCHANGED <<locator_vars, haversine, response, constructed, session_vars>>

PredictFertilizerNode ==
    /\ run.stage = "predict_fertilizer"
    /\ \E model \in FertilizerRuns :
          LET returned == predict_fertilizer_node(run.state, model)
          IN  run' = [Ran("predict_fertilizer", returned) EXCEPT
                         !.fertilizer_model_called = returned.called]
    /\ UNCHANGED <<locator_vars, haversine, response, constructed, session_vars>>

FindNearestAgrovetsStage ==
    /\ run.stage = "find_nearest_agrovets"
    /\ run' = Ran("find_nearest_agrovets",
                  find_nearest_agrovets_node(run.state, agrovet_locator))
    /\ UNCHANGED <<locator_vars, haversine, response, constructed, session_vars>>

GenerateExplanationNode ==
    /\ run.stage = "generate_explanation"
    /\ \E llm \in LlmRuns :
          run' = Ran("generate_explanation", generate_explanation_node(run.state, llm))
    /\ UNCHANGED <<locator_vars, haversine, response, constructed, session_vars>>

\* POST /predict from the return of the workflow: the PredictionResponse and,
\* for a user who is not logged in, the update of the session; or the
\* HTTPException of the except clause
PredictRespond ==
    /\ run.entry = "predict"
    /\ run.stage \in {"END", "raised"}
    /\ response.status_code = 0
    /\ IF run.stage = "raised"
       THEN /\ response' = [NoResponse EXCEPT !.status_code = 500]
            /\ UNCHANGED active_sessions
       ELSE /\ response' =
                  [status_code |-> 200,
                   soil_fertility_status |-> run.state.fertility_prediction,
                   fertilizer_recommendation |-> run.state.fertilizer_prediction,
                   nearest_agrovets |-> run.state.nearest_agrovets,
                   structured_response |-> run.state.structured_response]
            /\ \E current_user \in BOOLEAN, client \in Clients :
                  active_sessions' =
                      IF current_user THEN active_sessions
                      ELSE update_session(active_sessions, request_session[client],
                                          prediction_data(run.state), clock)
    /\ UNCHANGED <<locator_vars, haversine, run, constructed>>
    /\ UNCHANGED <<request_session, clock, session_call>>

NextWorkflow ==
    \/ PredictSoilFertility
    \/ Ainvoke
    \/ PredictFertilityNode
    \/ PredictFertilizerNode
    \/ FindNearestAgrovetsStage
    \/ GenerateExplanationNode
    \/ PredictRespond

SpecWorkflow == Init /\ [][NextWorkflow]_vars

(***************************************************************************)
(* The constructor called with a DataFrame, and the session manager        *)
(* called by hand: neither reads the locator component, so one startup,    *)
(* the one without a data file, stands for all.                            *)
(***************************************************************************)
InitStandalone ==
    /\ Init
    /\ load.source = MissingFile
    /\ argsort_tie = [i \in 1..MaxRows |-> i]

\* the column labels of the DataFrames handed to the constructor: canonical;
\* labels validation strips and lowercases; a capitalised name; a capitalised
\* products; no prices
GivenHeaders ==
    {<<NAME, LAT, LON, PRODUCTS, PRICES>>,
     <<<<" ", "N", "a", "m", "e">>, <<"L", "A", "T">>, <<"L", "o", "n", " ">>, <<"P", "r", "o", "d", "u", "c", "t", "s">>, <<"P", "R", "I", "C", "E", "S">>>>,
     <<<<"N", "a", "m", "e">>, LAT, LON, PRODUCTS, PRICES>>,
     <<NAME, LAT, LON, <<"P", "r", "o", "d", "u", "c", "t", "s">>, PRICES>>,
     <<NAME, LAT, LON, PRODUCTS, <<"c", "o", "s", "t">>>>}

GivenFrames == {NoneFrame} \cup {DataFrame(h, rws) : h \in GivenHeaders, rws \in RowLists}

\* AgrovetLocator(agrovets_df)
Construct ==
    /\ \E df \in GivenFrames :
          constructed' = [NoConstruction EXCEPT !.given = TRUE,
                                               !.raises = AgrovetLocator(df).raises,
                                               !.agrovets_df = df]
    /\ UNCHANGED <<locator_vars, haversine, workflow_vars, session_vars>>

\* find_nearest_agrovets of the locator built
FindNearestAgrovetsConstructed ==
    /\ constructed.given
    /\ ~constructed.raises
    /\ \E loc \in UserLocations, top_k \in TopKs, max_distance_km \in Radii :
          constructed' =
              [constructed EXCEPT
                  !.call = [op |-> "find", user_lat |-> loc[1], user_lon |-> loc[2],
                            top_k |-> top_k, max_distance_km |-> max_distance_km],
                  !.results = find_nearest_agrovets(constructed.agrovets_df,
                                  loc[1], loc[2], top_k, max_distance_km)]
    /\ UNCHANGED <<locator_vars, haversine, workflow_vars, session_vars>>

NextConstructor == Construct \/ FindNearestAgrovetsConstructed

SpecConstructor == InitStandalone /\ [][NextConstructor]_vars

\* uuid.uuid4(): an id no session and no cookie holds
NewSessionId ==
    CHOOSE id \in SessionIds :
        /\ id \notin DOMAIN active_sessions
        /\ \A client \in Clients : request_session[client] # id

\* get_session(request) of a client
GetSession(client) ==
    /\ IF request_session[client] = NoSessionId
       THEN LET session_id == NewSessionId
            IN  /\ request_session' = [request_session EXCEPT ![client] = session_id]
                /\ active_sessions' =
                      (session_id :> [predictions |-> <<>>, last_accessed |-> clock])
                          @@ active_sessions
                /\ session_call' =
                      [op |-> "get_session", client |-> client, session_id |-> session_id,
                       found |-> TRUE, follows_get |-> FALSE]
       ELSE /\ session_call' =
                  [op |-> "get_session", client |-> client,
                   session_id |-> request_session[client],
                   found |-> request_session[client] \in DOMAIN active_sessions,
                   follows_get |-> FALSE]
            /\ UNCHANGED <<active_sessions, request_session>>
    /\ UNCHANGED <<locator_vars, haversine, workflow_vars, constructed, clock>>

\* update_session(request, prediction_data) of a client
UpdateSession(client) ==
    /\ request_session[client] \in DOMAIN active_sessions =>
          Len(active_sessions[request_session[client]].predictions) < MaxPredictions
    /\ \E state \in {InitialState(<<0, 0>>, [fertility |-> TRUE, fertilizer |-> TRUE, llm |-> TRUE])} :
          active_sessions' = update_session(active_sessions, request_session[client],
                                            prediction_data(state), clock)
    /\ session_call' =
          [op |-> "update_session", client |-> client,
           session_id |-> request_session[client],
           found |-> /\ request_session[client] # NoSessionId
                     /\ request_session[client] \in DOMAIN active_sessions,
           follows_get |-> session_call.op = "get_session" /\ session_call.client = client]
    /\ UNCHANGED <<locator_vars, haversine, workflow_vars, constructed, request_session, clock>>

\* the max_age_hours of the calls: an hour, and the default
MaxAges == {1, 24}

\* cleanup_expired_sessions(max_age_hours)
CleanupExpiredSessions ==
    /\ \E max_age_hours \in MaxAges :
          LET expired_sessions ==
                  {session_id \in DOMAIN active_sessions :
                      clock - active_sessions[session_id].last_accessed > max_age_hours}
          IN  active_sessions' =
                  [session_id \in DOMAIN active_sessions \ expired_sessions |->
                      active_sessions[session_id]]
    /\ session_call' = [NoSessionCall EXCEPT !.op = "cleanup_expired_sessions"]
    /\ UNCHANGED <<locator_vars, haversine, workflow_vars, constructed, request_session, clock>>

\* an hour passes
Elapse ==
    /\ clock < MaxClock
    /\ clock' = clock + 1
    /\ UNCHANGED <<locator_vars, haversine, workflow_vars, constructed>>
    /\ UNCHANGED <<active_sessions, request_session, session_call>>

NextSessions ==
    \/ \E client \in Clients : GetSession(client)
    \/ \E client \in Clients : UpdateSession(client)
    \/ CleanupExpiredSessions
    \/ Elapse

SpecSessions == InitStandalone /\ [][NextSessions]_vars

(***************************************************************************)
(* Vocabulary of the properties: the catalog queried, the distance of a    *)
(* supplier from the user of the last call, and the supplier a result      *)
(* stands for.  Names are unique in the catalogs of the model.             *)
(***************************************************************************)
Catalog == agrovet_locator.agrovets_df
Suppliers == 1..Len(Catalog.rows)
Results == outcome.value
IsQuery == call.op = "find"
LocationGiven == call.user_lat # None /\ call.user_lon # None

Latitude(i) == AsFloat(CellOf(Catalog, Catalog.rows[i], LAT))
Longitude(i) == AsFloat(CellOf(Catalog, Catalog.rows[i], LON))
\* a row whose coordinates cannot be read as numbers
Malformed(i) ==
    \/ Latitude(i).raises \/ Longitude(i).raises
    \/ Latitude(i).value = NaN \/ Longitude(i).value = NaN
SupplierDistance(i) ==
    Distances[<<call.user_lat, call.user_lon, Latitude(i).value, Longitude(i).value>>]
InRadius(i) == ~Malformed(i) /\ SupplierDistance(i) <= call.max_distance_km
InRadiusSuppliers == {i \in Suppliers : InRadius(i)}
SupplierOf(k) ==
    CHOOSE i \in Suppliers : Str(CellOf(Catalog, Catalog.rows[i], NAME)) = Results[k].name
Returned == {SupplierOf(k) : k \in 1..Len(Results)}
Min(a, b) == IF a < b THEN a ELSE b

\* C1: a query returns exactly the top_k nearest of the suppliers within
\* max_distance_km: each result is a distinct in-radius supplier, every in-radius
\* supplier left out is at least as far as every supplier returned, and when fewer
\* than top_k suppliers are in radius all of them are returned.
C1_TopKNearestInRadius ==
    (IsQuery /\ LocationGiven) =>
        /\ \A k \in 1..Len(Results) :
              \E i \in InRadiusSuppliers :
                  Str(CellOf(Catalog, Catalog.rows[i], NAME)) = Results[k].name
        /\ Cardinality(Returned) = Len(Results)
        /\ Len(Results) = Min(call.top_k, Cardinality(InRadiusSuppliers))
        /\ \A i \in InRadiusSuppliers \ Returned, j \in Returned :
              SupplierDistance(i) >= SupplierDistance(j)

\* C2 as claimed: the distance_km reported for every result, rounded to 2
\* decimals, is <= max_distance_km.
C2_ReportedWithinRadius ==
    call.op # "none" =>
        \A k \in 1..Len(Results) : Results[k].distance_km <= call.max_distance_km

\* C2 as amended: every result's unrounded distance is <= max_distance_km and its
\* reported distance_km is <= max_distance_km rounded to 2 decimals.
C2_WithinRoundedRadius ==
    call.op # "none" =>
        \A k \in 1..Len(Results) :
            /\ SupplierDistance(SupplierOf(k)) <= call.max_distance_km
            /\ Results[k].distance_km <= Round2(call.max_distance_km)

\* a result in radius whose reported distance was rounded up past the radius
C2_Witness ==
    /\ IsQuery
    /\ \E k \in 1..Len(Results) :
          /\ SupplierDistance(SupplierOf(k)) <= call.max_distance_km
          /\ Results[k].distance_km > call.max_distance_km

\* C3: a query returns at most top_k records.
C3_BoundedCount == call.op # "none" => Len(Results) <= call.top_k

\* more than top_k suppliers in radius, top_k of them returned
C3_Witness ==
    /\ IsQuery /\ LocationGiven
    /\ Cardinality(InRadiusSuppliers) > call.top_k
    /\ Len(Results) = call.top_k

\* C4: distance_km never decreases along the results.
C4_SortOrder ==
    call.op # "none" =>
        \A k \in 1..(Len(Results) - 1) :
            Results[k].distance_km <= Results[k + 1].distance_km

\* two results at different distances, returned against their catalog order
C4_Witness ==
    /\ IsQuery
    /\ Len(Results) >= 2
    /\ Results[1].distance_km < Results[2].distance_km
    /\ SupplierOf(1) > SupplierOf(2)

\* C5: in-radius suppliers at equal distance are ranked, and chosen for the
\* top_k, in catalog row order.
C5_StableTieBreak ==
    (IsQuery /\ LocationGiven) =>
        \A i, j \in InRadiusSuppliers :
            (i < j /\ SupplierDistance(i) = SupplierDistance(j)) =>
                /\ j \in Returned => i \in Returned
                /\ \A k, m \in 1..Len(Results) :
                      (SupplierOf(k) = i /\ SupplierOf(m) = j) => k < m

WellFormedRows ==
    LET keep == [i \in Suppliers |-> ~Malformed(i)]
        at == Where(keep, 1)
    IN  [k \in 1..Len(at) |-> Catalog.rows[at[k]]]
C7_MalformedRowsExcluded ==
    (IsQuery /\ LocationGiven) =>
        Results = find_nearest_agrovets(DataFrame(Catalog.columns, WellFormedRows),
                     call.user_lat, call.user_lon, call.top_k, call.max_distance_km)

\* C8: on a catalog without rows, or without a supplier in radius, a query
\* returns the empty list.
C8_EmptyIsSuccess ==
    (IsQuery /\ LocationGiven /\ ~Catalog.isNone /\ InRadiusSuppliers = {}) =>
        outcome = [kind |-> "return", value |-> <<>>]

\* a catalog with well-formed rows, none of them in radius
C8_Witness ==
    /\ IsQuery /\ LocationGiven
    /\ \E i \in Suppliers : ~Malformed(i)
    /\ InRadiusSuppliers = {}
    /\ outcome = [kind |-> "return", value |-> <<>>]

\* C9: a call that finds no catalog (the locator holds None, or the component
\* is missing) ends in the error LocatorUninitialized.
C9_UninitializedSignalled ==
    (call.op # "none" /\ (~agrovet_locator.present \/ Catalog.isNone)) =>
        outcome.kind = "LocatorUninitialized"

\* C10: a query whose location is missing or out of range ends in the error
\* InvalidLocation.
InvalidLocation ==
    \/ ~LocationGiven
    \/ call.user_lat < 0 - 90 \/ call.user_lat > 90
    \/ call.user_lon < 0 - 180 \/ call.user_lon > 180
C10_InvalidLocationSignalled ==
    (IsQuery /\ InvalidLocation) => outcome.kind = "InvalidLocation"

(***************************************************************************)
(* Vocabulary of the load properties: the file read at startup, its header *)
(* after strip and lower, and the labels load_agrovet_data gave its columns.*)
(***************************************************************************)
FileRead == load.source.exists /\ load.source.parses
NormalizedHeader ==
    [i \in 1..Len(load.source.header) |-> Lower(Strip(load.source.header[i]))]
LoadedColumns == load.agrovets_df.columns
LatRule(col) == Contains(col, LAT) /\ ~Contains(col, LATITUDE)
LonRule(col) == Contains(col, LON) /\ ~Contains(col, LONGITUDE)

\* C11: a load from a file that is missing or cannot be parsed ends in the error
\* DataUnavailable and leaves no locator to query.
C11_DataUnavailableSignalled ==
    ~FileRead => (load.outcome = "DataUnavailable" /\ ~agrovet_locator.present)

\* C12: every row of a constructed catalog has a finite latitude in -90..90 and
\* a finite longitude in -180..180.
C12_CatalogInvariant ==
    (agrovet_locator.present /\ ~Catalog.isNone) =>
        \A i \in Suppliers :
            /\ ~Malformed(i)
            /\ Latitude(i).value >= 0 - 90 /\ Latitude(i).value <= 90
            /\ Longitude(i).value >= 0 - 180 /\ Longitude(i).value <= 180

\* C13 as claimed: each of the five rules applies to every column whose
\* normalized label contains its substring.
C13_EveryRuleApplies ==
    FileRead =>
        \A i \in 1..Len(NormalizedHeader) :
            LET col == NormalizedHeader[i]
                to == LoadedColumns[i]
            IN  /\ LatRule(col) => to = LAT
                /\ LonRule(col) => to = LON
                /\ Contains(col, NAME) => to = NAME
                /\ Contains(col, PRODUCT) => to = PRODUCTS
                /\ Contains(col, PRICE) => to = PRICES

\* C13 as amended: the rules are tried in the order name, lat, lon, product,
\* price on the normalized label and the first that matches names the column;
\* a column no rule matches keeps its normalized label.
C13_FirstRuleApplies ==
    FileRead =>
        \A i \in 1..Len(NormalizedHeader) :
            LET col == NormalizedHeader[i]
                to == LoadedColumns[i]
                n == Contains(col, NAME)
                la == ~n /\ LatRule(col)
                lo == ~n /\ ~la /\ LonRule(col)
                pd == ~n /\ ~la /\ ~lo /\ Contains(col, PRODUCT)
                pr == ~n /\ ~la /\ ~lo /\ ~pd /\ Contains(col, PRICE)
            IN  /\ n => to = NAME
                /\ la => to = LAT
                /\ lo => to = LON
                /\ pd => to = PRODUCTS
                /\ pr => to = PRICES
                /\ ~(n \/ la \/ lo \/ pd \/ pr) => to = col

\* a label with the substrings of the 'name' rule and of the 'product' rule,
\* named by the 'name' rule
C13_Witness ==
    /\ FileRead
    /\ \E i \in 1..Len(NormalizedHeader) :
          /\ Contains(NormalizedHeader[i], PRODUCT) /\ Contains(NormalizedHeader[i], NAME)
          /\ LoadedColumns[i] = NAME

\* C14: a file whose header has a column for the latitude, the longitude, the
\* name, the products and the prices under some naming variant loads into a
\* catalog that passes validation.
ExposesColumn(sub) == \E i \in 1..Len(NormalizedHeader) : Contains(NormalizedHeader[i], sub)
C14_BestEffortDiscovery ==
    (/\ FileRead
     /\ ExposesColumn(LAT) /\ ExposesColumn(LON) /\ ExposesColumn(NAME)
     /\ ExposesColumn(PRODUCT) /\ ExposesColumn(PRICE)) =>
        (load.outcome = "return" /\ agrovet_locator.present)

(***************************************************************************)
(* Vocabulary of the parsing properties: the text written in a source cell, *)
(* none for a cell left empty, and what the claims read out of it.          *)
(***************************************************************************)
SourceText(cell) == IF cell.kind = "text" THEN cell.text ELSE <<>>
\* the comma-separated tokens that parse as numbers, as numbers, in their order
NumberTokens(text) ==
    LET tokens == Split(text)
        at == Where([i \in 1..Len(tokens) |-> ~ParseFloat(tokens[i]).raises], 1)
    IN  [k \in 1..Len(at) |-> ParseFloat(tokens[at[k]]).value]
\* the comma-separated entries, trimmed, that are not empty, in their order
NonEmptyEntries(text) ==
    LET tokens == Split(text)
        at == Where([i \in 1..Len(tokens) |-> Strip(tokens[i]) # <<>>], 1)
    IN  [k \in 1..Len(at) |-> Strip(tokens[at[k]])]
SupplierCell(k, label) == CellOf(Catalog, Catalog.rows[SupplierOf(k)], label)

\* C15: the prices of every result are the tokens of the supplier's prices cell
\* that parse as numbers, in their order.
C15_PriceParsing ==
    call.op # "none" =>
        \A k \in 1..Len(Results) :
            Results[k].prices = NumberTokens(SourceText(SupplierCell(k, PRICES)))

\* C16: the products of every result are the non-empty trimmed entries of the
\* supplier's products cell, in their order; none for an empty cell.
C16_ProductParsing ==
    call.op # "none" =>
        \A k \in 1..Len(Results) :
            Results[k].products = NonEmptyEntries(SourceText(SupplierCell(k, PRODUCTS)))

\* C17: the results stand for distinct catalog rows, each with the name,
\* latitude and longitude of its row and the rounded distance of that row, and
\* each has exactly the six fields.
C17_ResultFields ==
    call.op # "none" =>
        /\ \E rowOf \in [1..Len(Results) -> Suppliers] :
              /\ \A k, m \in 1..Len(Results) : k # m => rowOf[k] # rowOf[m]
              /\ \A k \in 1..Len(Results) :
                    /\ Results[k].name = Str(CellOf(Catalog, Catalog.rows[rowOf[k]], NAME))
                    /\ Results[k].latitude = Latitude(rowOf[k]).value
                    /\ Results[k].longitude = Longitude(rowOf[k]).value
                    /\ Results[k].distance_km = Round2(SupplierDistance(rowOf[k]))
        /\ \A k \in 1..Len(Results) :
              DOMAIN Results[k] =
                  {"name", "latitude", "longitude", "products", "prices", "distance_km"}

\* the node returned two suppliers, the second of the catalog first
C17_Witness ==
    /\ call.op = "node"
    /\ Len(Results) = 2
    /\ Results[1].name = Str(CellOf(Catalog, Catalog.rows[2], NAME))
    /\ Results[2].name = Str(CellOf(Catalog, Catalog.rows[1], NAME))

\* C18: whatever was called, the catalog of the locator is the DataFrame the
\* load gave it: same column labels, same rows, same cells.
C18_ReadOnlyQuery ==
    agrovet_locator.present => Catalog = load.agrovets_df

\* a query that returned fewer suppliers than the catalog has rows
C18_Witness ==
    /\ IsQuery
    /\ Len(Results) >= 1
    /\ Len(Results) < Len(Catalog.rows)
    /\ Catalog = load.agrovets_df

\* C19: whatever the interleaving, a call that has returned holds the list the
\* same call returns when it runs alone, and no two calls that have returned hold
\* the same list object.
C19_ConcurrentQueries ==
    \A t \in Threads :
        inflight[t].pc = "returned" =>
            /\ heap[inflight[t].ref] =
                  find_nearest_agrovets(Catalog, inflight[t].call.user_lat,
                      inflight[t].call.user_lon, inflight[t].call.top_k,
                      inflight[t].call.max_distance_km)
            /\ \A u \in Threads \ {t} :
                  inflight[u].pc = "returned" => inflight[u].ref # inflight[t].ref

\* two calls with different arguments, each begun while the other was between
\* its sort and its loop or the reverse, have both returned suppliers
C19_Witness ==
    /\ \A t \in {1, 2} :
          /\ inflight[t].pc = "returned"
          /\ inflight[t].overlapped
          /\ Len(heap[inflight[t].ref]) >= 1
    /\ heap[inflight[1].ref] # heap[inflight[2].ref]

AtUser(i) ==
    /\ ~Malformed(i)
    /\ Latitude(i).value = call.user_lat
    /\ Longitude(i).value = call.user_lon
C21_SelfDistance ==
    (call.op # "none" /\ LocationGiven) =>
        \A i \in Suppliers :
            AtUser(i) =>
                /\ SupplierDistance(i) = 0
                /\ \A k \in 1..Len(Results) :
                      SupplierOf(k) = i =>
                          /\ Results[k].distance_km = 0
                          /\ \A n \in 1..Len(Results) :
                                Results[n].distance_km > 0 => k < n

\* the node, asked from latitude 91, returned the supplier that is there
C21_Witness ==
    /\ call.op = "node"
    /\ call.user_lat = 91
    /\ \E k \in 1..Len(Results) : AtUser(SupplierOf(k)) /\ Results[k].distance_km = 0

\* C22: the distance computed from A to B is the distance computed from B to A.
C22_Symmetry ==
    haversine.from # <<>> => haversine.there = haversine.back

\* two points apart in latitude and in longitude, a positive distance between them
C22_Witness ==
    /\ haversine.from # <<>>
    /\ haversine.from[1] # haversine.to[1]
    /\ haversine.from[2] # haversine.to[2]
    /\ haversine.there[1] > 0
    /\ haversine.there = haversine.back

(***************************************************************************)
(* Vocabulary of the workflow properties.                                  *)
(***************************************************************************)
\* the search of the run is in a true error state: no locator component, no
\* location in soil_data, or a coordinate column that cannot be read
SearchInError ==
    \/ ~agrovet_locator.present
    \/ run.state.soil_data.latitude = None \/ run.state.soil_data.longitude = None
    \/ /\ ~Catalog.isNone /\ ~Empty(Catalog)
       /\ ColumnAsFloat(Catalog, LAT).raises \/ ColumnAsFloat(Catalog, LON).raises
Finished == run.stage \in {"END", "raised"}

\* C23: a prediction response whose agrovet search was in an error state does not
\* carry the empty nearest_agrovets list, the output of "no nearby suppliers".
C23_EmptyDistinctFromError ==
    (response.status_code = 200 /\ SearchInError) => response.nearest_agrovets # <<>>

\* C24: after load, each canonical column name occurs at most once among the
\* columns of the catalog.
C24_FirstMatchWins ==
    (FileRead /\ agrovet_locator.present) =>
        \A k \in 1..Len(required_columns) : ~Duplicated(Catalog, required_columns[k])

\* the column of the DataFrame handed to the constructor that validation takes
\* for label, and the coordinates of its rows read from those columns
GivenColumn(label) ==
    CHOOSE i \in 1..Len(constructed.agrovets_df.columns) :
        Lower(Strip(constructed.agrovets_df.columns[i])) = label
GivenCoordinate(i, label) == AsFloat(constructed.agrovets_df.rows[i][GivenColumn(label)])
GivenReadable ==
    \A i \in 1..Len(constructed.agrovets_df.rows) :
        /\ ~GivenCoordinate(i, LAT).raises /\ GivenCoordinate(i, LAT).value # NaN
        /\ ~GivenCoordinate(i, LON).raises /\ GivenCoordinate(i, LON).value # NaN
GivenInRadius(i) ==
    Distances[<<constructed.call.user_lat, constructed.call.user_lon,
                GivenCoordinate(i, LAT).value, GivenCoordinate(i, LON).value>>]
        <= constructed.call.max_distance_km

\* C25: a query of a locator whose DataFrame passed _validate_dataframe, with
\* readable coordinates and a row inside the radius, returns a non-empty list.
C25_ValidatedIsQueryable ==
    (/\ constructed.call.op = "find"
     /\ ~constructed.agrovets_df.isNone
     /\ constructed.call.user_lat # None
     /\ GivenReadable
     /\ \E i \in 1..Len(constructed.agrovets_df.rows) : GivenInRadius(i))
        => constructed.results # <<>>

\* C26: the stages a run has executed are the first stages of the order
\* predict_fertility, predict_fertilizer, find_nearest_agrovets,
\* generate_explanation, each once; the stage the run is at is the next of the
\* order; and a run that has ended has executed all four, whatever the two
\* predictions are.
C26_StagesInOrder ==
    /\ Len(run.executed) <= Len(Stages)
    /\ run.executed = SubSeq(Stages, 1, Len(run.executed))
    /\ run.stage \notin {"idle", "END", "raised"} => run.stage = Stages[Len(run.executed) + 1]
    /\ Finished => run.executed = Stages

\* a run that ended with both predictions UNKNOWN and suppliers found
C26_Witness ==
    /\ run.stage = "END"
    /\ run.executed = Stages
    /\ run.state.fertility_prediction = UNKNOWN
    /\ run.state.fertilizer_prediction = UNKNOWN
    /\ run.state.nearest_agrovets # <<>>

\* C27: the step of find_nearest_agrovets_node does not raise (the run goes on
\* to generate_explanation), leaves the fertility and fertilizer fields of the
\* state as they were, and sets nearest_agrovets to the empty list when the
\* search is in an error state.
C27_SearchNodeNeverRaises ==
    [][run.stage = "find_nearest_agrovets" =>
          /\ run'.stage = "generate_explanation"
          /\ run'.state.fertility_prediction = run.state.fertility_prediction
          /\ run'.state.fertility_confidence = run.state.fertility_confidence
          /\ run'.state.fertilizer_prediction = run.state.fertilizer_prediction
          /\ run'.state.fertilizer_confidence = run.state.fertilizer_confidence
          /\ SearchInError => run'.state.nearest_agrovets = <<>>]_vars

\* the search node has returned without a locator component, the predictions kept
C27_Witness ==
    /\ run.stage = "generate_explanation"
    /\ ~agrovet_locator.present
    /\ run.state.nearest_agrovets = <<>>
    /\ run.state.fertility_prediction = FERTILITY_STATUS_MAP[0]
    /\ run.state.fertilizer_prediction = FERTILIZER_TYPE_MAP[0]

\* C28: generate_explanation_node does not raise, a run without a usable llm
\* ends with the fallback analysis as structured_response, and POST /predict
\* does not answer 500 once the workflow has run.
C28_FallbackCompletes ==
    /\ run.stage # "raised"
    /\ (run.stage = "END" /\ ~run.state.app_components.llm) =>
          run.state.structured_response = "fallback"
    /\ (run.entry = "predict" /\ run.executed # <<>>) => response.status_code # 500

\* C29: neither prediction node raises, and from a fertility prediction that is
\* UNKNOWN or unset predict_fertilizer_node sets fertilizer_prediction to
\* UNKNOWN and fertilizer_confidence to 0.0 without a call of the fertilizer
\* model.
C29_FertilizerNeedsFertility ==
    [][/\ run.stage = "predict_fertility" => run'.stage = "predict_fertilizer"
       /\ run.stage = "predict_fertilizer" => run'.stage = "find_nearest_agrovets"
       /\ (/\ run.stage = "predict_fertilizer"
           /\ run.state.fertility_prediction \in {UNKNOWN, Unset}) =>
             /\ run'.state.fertilizer_prediction = UNKNOWN
             /\ run'.state.fertilizer_confidence = 0
             /\ ~run'.fertilizer_model_called]_vars

\* the fertilizer node has returned after a fertility model that predicted a
\* class outside the map, the fertilizer model and preprocessor being there
C29_Witness ==
    /\ run.stage = "find_nearest_agrovets"
    /\ run.state.app_components.fertilizer
    /\ run.state.fertility_prediction = UNKNOWN
    /\ run.state.fertility_confidence > 0
    /\ run.state.fertilizer_prediction = UNKNOWN
    /\ run.state.fertilizer_confidence = 0
    /\ ~run.fertilizer_model_called

\* C30: once get_session has returned, the session_id of the request is a key
\* of active_sessions, and an update_session that follows it for the same
\* request appends its prediction to that session.
C30_GetOrCreate ==
    /\ session_call.op = "get_session" =>
          session_call.session_id \in DOMAIN active_sessions
    /\ (session_call.op = "update_session" /\ session_call.follows_get) =>
          session_call.found
====
